---------------------------- MODULE Spec2Model ----------------------------
(***************************************************************************)
(* A model of csvtool (src/CSV/csvtool.py): the numeric() coercion, the    *)
(* FIELDSPEC parser parse_range(), the ShellWriter and TableWriter classes *)
(* and the row loop of main().                                             *)
(*                                                                         *)
(* Python values are modelled as follows.                                  *)
(*   str    a sequence of characters, <<"4", ".", "0">>; the characters   *)
(*          outside ASCII are written by name: "EUR" is the euro sign,     *)
(*          "BOX_V", "BOX_H" and "BOX_X" the box-drawing vertical bar,     *)
(*          horizontal bar and crossing                                    *)
(*   cell   a record [t, s, n, e]: t is the Python type ("str", "int",     *)
(*          "float", "None"), s the characters of a str, and n * 10^e the  *)
(*          value of a number (n without trailing zeros, e < 0 exactly for *)
(*          a float with a fractional part)                                *)
(*   row    a sequence of cells                                            *)
(*   range  a record [n, m, mNone]: the tuple (n, m), mNone when m is None *)
(***************************************************************************)
EXTENDS Integers, Sequences, FiniteSets, TLC

VARIABLES
    pc,       \* where the program stands
    arg,      \* the argument of the function under study
    ret,      \* what the function returned (or the exception it raised)
    opt,      \* main(): the parsed options
    i,        \* main(): the row counter
    log,      \* main(): the locals of each loop iteration so far, in order
    written,  \* main(): the rows handed to writer.writerow, in call order
    shell,    \* the ShellWriter object: vars, none_as
    table,    \* the TableWriter object: data, style, col_sep, head_sep, markdown, none_as
    outfile,  \* the lines written to the writer's outfile, in order
    calls     \* the rows passed to the writer object's writerow, in order

allvars == <<pc, arg, ret, opt, i, log, written, shell, table, outfile, calls>>

---------------------------------------------------------------------------
(* Bounds of the model. *)

MaxStr == 3
MaxSpec == 4
MaxRows == 2
MaxCalls == 3
MaxBuffered == 2

---------------------------------------------------------------------------
(* Python values. *)

Str(s) == [t |-> "str", s |-> s, n |-> 0, e |-> 0]
NoneVal == [t |-> "None", s |-> <<>>, n |-> 0, e |-> 0]

Abs(k) == IF k < 0 THEN 0 - k ELSE k

RECURSIVE Pow10(_)
Pow10(k) == IF k <= 0 THEN 1 ELSE 10 * Pow10(k - 1)

\* n * 10^e with the trailing zeros of n moved into e.
RECURSIVE Normalize(_, _)
Normalize(n, e) ==
    IF n = 0 THEN <<0, 0>>
    ELSE IF Abs(n) % 10 = 0
         THEN IF n < 0 THEN Normalize(0 - (Abs(n) \div 10), e + 1)
                       ELSE Normalize(n \div 10, e + 1)
         ELSE <<n, e>>

\* The number n * 10^e: an int when it has no fractional part, else a float.
NumOf(p) ==
    [t |-> IF p[2] >= 0 THEN "int" ELSE "float", s |-> <<>>, n |-> p[1], e |-> p[2]]
Num(n, e) == NumOf(Normalize(n, e))

IntCell(k) == Num(k, 0)

IsStr(c) == c.t = "str"
IsInt(c) == c.t = "int"
IsFloat(c) == c.t = "float"
IsNone(c) == c.t = "None"

\* The value of an int cell.
IntVal(c) == c.n * Pow10(c.e)

---------------------------------------------------------------------------
(* Characters and strings. *)

Digits == <<"0", "1", "2", "3", "4", "5", "6", "7", "8", "9">>
IsDigit(c) == \E k \in 1..10 : Digits[k] = c
DigitVal(c) == (CHOOSE k \in 1..10 : Digits[k] = c) - 1
IsSpace(c) == c = " "

\* The currency symbols of re_numeric's first character class that the
\* model's alphabets use.
Currency == {"$", "EUR"}

RECURSIVE SeqsUpTo(_, _)
SeqsUpTo(S, k) ==
    IF k = 0 THEN {<<>>}
    ELSE LET shorter == SeqsUpTo(S, k - 1)
         IN  shorter \cup {Append(q, c) : q \in {r \in shorter : Len(r) = k - 1}, c \in S}

AllDigits(s) == \A k \in 1..Len(s) : IsDigit(s[k])

\* s[k:] (0-based k, 0 <= k).
From(s, k) == SubSeq(s, k + 1, Len(s))
\* s[:k] (0 <= k).
Upto(s, k) == SubSeq(s, 1, IF k < Len(s) THEN k ELSE Len(s))

\* The length of the longest prefix of s made of digits.
DigitPrefixLen(s) ==
    CHOOSE k \in 0..Len(s) :
        /\ \A j \in 1..k : IsDigit(s[j])
        /\ k = Len(s) \/ ~IsDigit(s[k + 1])

\* The length of the longest prefix of s made of whitespace.
SpacePrefixLen(s) ==
    CHOOSE k \in 0..Len(s) :
        /\ \A j \in 1..k : IsSpace(s[j])
        /\ k = Len(s) \/ ~IsSpace(s[k + 1])

\* The length of the longest suffix of s made of whitespace.
SpaceSuffixLen(s) ==
    CHOOSE k \in 0..Len(s) :
        /\ \A j \in 1..k : IsSpace(s[Len(s) + 1 - j])
        /\ k = Len(s) \/ ~IsSpace(s[Len(s) - k])

\* str.strip()
RStrip(s) == SubSeq(s, 1, Len(s) - SpaceSuffixLen(s))
Strip(s) == RStrip(From(s, SpacePrefixLen(s)))

\* str.replace(c, "")
RemoveChar(s, c) == SelectSeq(s, LAMBDA ch : ch # c)

\* str.replace(a, b) for single characters
ReplaceChar(s, a, b) == [k \in 1..Len(s) |-> IF s[k] = a THEN b ELSE s[k]]

\* The natural number a string of digits denotes.
RECURSIVE DigitsVal(_)
DigitsVal(s) ==
    IF s = <<>> THEN 0
    ELSE 10 * DigitsVal(SubSeq(s, 1, Len(s) - 1)) + DigitVal(s[Len(s)])

\* The decimal digits of a natural number.
RECURSIVE NatStr(_)
NatStr(k) ==
    IF k < 10 THEN <<Digits[k + 1]>>
    ELSE Append(NatStr(k \div 10), Digits[(k % 10) + 1])

IsSign(c) == c = "-" \/ c = "+"

\* int(s) of a str: surrounding whitespace, an optional sign, digits.
\* [ok |-> FALSE] stands for ValueError.
IntDigits(d, neg) ==
    IF d # <<>> /\ AllDigits(d)
    THEN [ok |-> TRUE, v |-> IF neg THEN 0 - DigitsVal(d) ELSE DigitsVal(d)]
    ELSE [ok |-> FALSE, v |-> 0]

IntSigned(t) ==
    IF t # <<>> /\ IsSign(t[1]) THEN IntDigits(Tail(t), t[1] = "-")
    ELSE IntDigits(t, FALSE)

PyInt(s) == IntSigned(Strip(s))

\* float(s) of a str: surrounding whitespace, an optional sign, digits with
\* an optional point (at least one digit), an optional exponent.  The value
\* is n * 10^e.  [ok |-> FALSE] stands for ValueError.  (The words inf, nan
\* and infinity, which float() accepts too, need letters the model's
\* alphabets do not have.)  The parse is staged: sign, integer digits,
\* point and fraction digits, exponent marker, exponent sign, exponent
\* digits.
FloatError == [ok |-> FALSE, n |-> 0, e |-> 0]

FloatExpVal(neg, ds, fl, ed, eneg) ==
    IF ed # <<>> /\ AllDigits(ed)
    THEN [ok |-> TRUE,
          n |-> IF neg THEN 0 - DigitsVal(ds) ELSE DigitsVal(ds),
          e |-> (IF eneg THEN 0 - DigitsVal(ed) ELSE DigitsVal(ed)) - fl]
    ELSE FloatError

FloatExpSign(neg, ds, fl, x) ==
    IF x # <<>> /\ IsSign(x[1])
    THEN FloatExpVal(neg, ds, fl, Tail(x), x[1] = "-")
    ELSE FloatExpVal(neg, ds, fl, x, FALSE)

FloatExp(neg, ds, fl, r) ==
    IF ds = <<>> THEN FloatError
    ELSE IF r = <<>>
    THEN [ok |-> TRUE, n |-> IF neg THEN 0 - DigitsVal(ds) ELSE DigitsVal(ds),
          e |-> 0 - fl]
    ELSE IF r[1] = "e" \/ r[1] = "E" THEN FloatExpSign(neg, ds, fl, Tail(r))
    ELSE FloatError

FloatFrac(d, neg, il, fl) ==
    FloatExp(neg, Upto(d, il) \o SubSeq(d, il + 2, il + 1 + fl), fl,
             From(d, il + 1 + fl))

FloatPoint(d, neg, il) ==
    IF il < Len(d) /\ d[il + 1] = "."
    THEN FloatFrac(d, neg, il, DigitPrefixLen(From(d, il + 1)))
    ELSE FloatExp(neg, Upto(d, il), 0, From(d, il))

FloatSigned(t) ==
    IF t # <<>> /\ IsSign(t[1])
    THEN FloatPoint(Tail(t), t[1] = "-", DigitPrefixLen(Tail(t)))
    ELSE FloatPoint(t, FALSE, DigitPrefixLen(t))

PyFloat(s) == FloatSigned(Strip(s))

\* str(x) of an int cell.
IntStr(c) ==
    LET v == IntVal(c)
    IN  IF v < 0 THEN <<"-">> \o NatStr(0 - v) ELSE NatStr(v)

\* str(x) of a float cell with a fractional part, in positional notation
\* (repr switches to exponent notation below 1e-4, which the model's floats
\* do not reach where str() is applied).
FloatStr(c) ==
    LET a == Abs(c.n)
        scale == Pow10(0 - c.e)
        frac == NatStr(a % scale)
        zeros == [k \in 1..((0 - c.e) - Len(frac)) |-> "0"]
    IN  (IF c.n < 0 THEN <<"-">> ELSE <<>>)
        \o NatStr(a \div scale) \o <<".">> \o zeros \o frac

\* str(x)
PyStr(c) ==
    IF IsStr(c) THEN c.s
    ELSE IF IsInt(c) THEN IntStr(c)
    ELSE IF IsFloat(c) THEN FloatStr(c)
    ELSE <<"N", "o", "n", "e">>

\* bool(x): the truth value of a cell.
Truthy(c) ==
    IF IsStr(c) THEN c.s # <<>>
    ELSE IF IsNone(c) THEN FALSE
    ELSE c.n # 0

---------------------------------------------------------------------------
(* numeric(), lines 20-55. *)

IsIntChar(c) == c = "," \/ IsDigit(c)

\* re_numeric.match(y): an optional currency symbol, [,0-9]*, an optional
\* point followed by digits, then the end of the string.
IntCharPrefixLen(s) ==
    CHOOSE k \in 0..Len(s) :
        /\ \A j \in 1..k : IsIntChar(s[j])
        /\ k = Len(s) \/ ~IsIntChar(s[k + 1])

ReNumericTail(b) == b = <<>> \/ (b[1] = "." /\ AllDigits(Tail(b)))
ReNumericBody(a) == ReNumericTail(From(a, IntCharPrefixLen(a)))
ReNumericMatch(y) ==
    ReNumericBody(IF y # <<>> /\ y[1] \in Currency THEN Tail(y) ELSE y)

\* Lines 43-47: a matching string loses a leading "$" and its commas.
NumericClean(y) ==
    IF ReNumericMatch(y)
    THEN RemoveChar(IF y # <<>> /\ y[1] = "$" THEN Tail(y) ELSE y, ",")
    ELSE y

\* Lines 50-54: float(y), narrowed to an int when it is_integer().
NumericFloat(x, f) == IF f.ok THEN Num(f.n, f.e) ELSE x

\* Lines 48-55: int(y), else float(y), else x.
NumericInt(x, y, k) == IF k.ok THEN IntCell(k.v) ELSE NumericFloat(x, PyFloat(y))

NumericParse(x, y) == NumericInt(x, y, PyInt(y))

\* numeric() with the two parses inside "if m:".
numeric_parse_only_on_match(x) ==
    IF ReNumericMatch(IF IsStr(x) THEN x.s ELSE PyStr(x))
    THEN NumericParse(x, NumericClean(IF IsStr(x) THEN x.s ELSE PyStr(x)))
    ELSE x

\* numeric(x) for a cell x.
numeric(x) == NumericParse(x, NumericClean(IF IsStr(x) THEN x.s ELSE PyStr(x)))

---------------------------------------------------------------------------
(* parse_range(), lines 69-90. *)

Range(n, m) == [n |-> n, m |-> m, mNone |-> FALSE]
RangeToEnd(n) == [n |-> n, m |-> 0, mNone |-> TRUE]

HasChar(s, c) == \E k \in 1..Len(s) : s[k] = c
FirstIndex(s, c) == CHOOSE k \in 1..Len(s) : s[k] = c /\ \A j \in 1..(k - 1) : s[j] # c

\* str.split(c): the pieces of s between the occurrences of c.
RECURSIVE Split(_, _)
Split(s, c) ==
    IF ~HasChar(s, c) THEN <<s>>
    ELSE <<SubSeq(s, 1, FirstIndex(s, c) - 1)>>
         \o Split(SubSeq(s, FirstIndex(s, c) + 1, Len(s)), c)

ValueError == [ok |-> FALSE, f |-> <<>>]

\* Lines 76-78: a token without "-".
range_single_no_decrement(m) ==
    IF m.ok THEN [ok |-> TRUE, f |-> <<Range(m.v, m.v)>>] ELSE ValueError

RangeSingle(m) ==
    IF m.ok THEN [ok |-> TRUE, f |-> <<Range(m.v - 1, m.v)>>] ELSE ValueError

\* Lines 80-88: a token "n-m"; an empty n is 0, an empty m is None.
RangePair(n, m) ==
    IF n # <<>> /\ ~PyInt(n).ok THEN ValueError
    ELSE IF m # <<>> /\ ~PyInt(m).ok THEN ValueError
    ELSE IF m = <<>>
         THEN [ok |-> TRUE,
               f |-> <<RangeToEnd(IF n = <<>> THEN 0 ELSE PyInt(n).v - 1)>>]
         ELSE [ok |-> TRUE,
               f |-> <<Range(IF n = <<>> THEN 0 ELSE PyInt(n).v - 1, PyInt(m).v)>>]

\* Lines 75-89: one token, split at "-".  Unpacking more than two pieces
\* into n, m raises ValueError.
RangePieces(r) ==
    IF Len(r) = 1 THEN RangeSingle(PyInt(r[1]))
    ELSE IF Len(r) = 2 THEN RangePair(r[1], r[2])
    ELSE ValueError

RangeToken(tok) == RangePieces(Split(tok, "-"))

RangeAppend(acc, one) ==
    IF acc.ok /\ one.ok THEN [ok |-> TRUE, f |-> acc.f \o one.f] ELSE ValueError

\* Lines 73-90: the loop over the tokens, in order.
RECURSIVE RangeLoop(_, _)
RangeLoop(ranges, acc) ==
    IF ranges = <<>> \/ ~acc.ok THEN acc
    ELSE RangeLoop(Tail(ranges), RangeAppend(acc, RangeToken(Head(ranges))))

StripAll(pieces) == [k \in 1..Len(pieces) |-> Strip(pieces[k])]

\* parse_range(s): [ok |-> TRUE, f |-> the list] or ValueError.
parse_range(s) == RangeLoop(StripAll(Split(s, ",")), [ok |-> TRUE, f |-> <<>>])

---------------------------------------------------------------------------
(* The row loop of main(), lines 537-562. *)

Max(a, b) == IF a > b THEN a ELSE b
Least(a, b) == IF a < b THEN a ELSE b

\* The bounds Python gives the slice [n:m] of a list of length len.
SliceLo(len, r) == IF r.n < 0 THEN Max(r.n + len, 0) ELSE Least(r.n, len)
SliceHi(len, r) ==
    IF r.mNone THEN len
    ELSE IF r.m < 0 THEN Max(r.m + len, 0) ELSE Least(r.m, len)

\* row[n:m]
Slice(row, r) == SubSeq(row, SliceLo(Len(row), r) + 1, SliceHi(Len(row), r))

\* row[n:m] = [v]
SliceAssign(row, r, v) ==
    SubSeq(row, 1, SliceLo(Len(row), r)) \o <<v>>
    \o SubSeq(row, Max(SliceLo(Len(row), r), SliceHi(Len(row), r)) + 1, Len(row))

\* sep.join(strs) for a list of str.
RECURSIVE JoinStr(_, _)
JoinStr(sep, strs) ==
    IF strs = <<>> THEN <<>>
    ELSE IF Len(strs) = 1 THEN strs[1].s
    ELSE strs[1].s \o sep \o JoinStr(sep, Tail(strs))

\* Line 556, right-hand side: opt.joinchar.join([x for x in row[n:m] if x]).
\* str.join raises TypeError on an item that is not a str.
JoinKept(sep, kept) ==
    IF \E k \in 1..Len(kept) : ~IsStr(kept[k])
    THEN [ok |-> FALSE, cell |-> NoneVal]
    ELSE [ok |-> TRUE, cell |-> Str(JoinStr(sep, kept))]

JoinAssign(row, r, j) ==
    IF j.ok THEN [ok |-> TRUE, row |-> SliceAssign(row, r, j.cell)]
    ELSE [ok |-> FALSE, row |-> row]

\* Line 556 for one (n, m).
JoinOne(row, r, sep) ==
    JoinAssign(row, r, JoinKept(sep, SelectSeq(Slice(row, r), Truthy)))

\* Lines 555-556: the ranges of opt.join_fields, in list order.
RECURSIVE JoinFields(_, _, _)
JoinFields(res, ranges, sep) ==
    IF ranges = <<>> \/ ~res.ok THEN res
    ELSE JoinFields(JoinOne(res.row, Head(ranges), sep), Tail(ranges), sep)

\* Lines 558-560 with the end of each range taken as inclusive of the next
\* field.
keep_extend_one_past(r, row, keep) ==
    IF keep = <<>> THEN r
    ELSE r \o SubSeq(row, SliceLo(Len(row), Head(keep)) + 1,
                     Least(SliceHi(Len(row), Head(keep)) + 1, Len(row)))

\* Lines 559-560, one range: r.extend(row[n:m]).
KeepExtend(r, row, keep) ==
    IF keep = <<>> THEN r ELSE r \o Slice(row, Head(keep))

\* Lines 558-560.
RECURSIVE KeepLoop(_, _, _)
KeepLoop(r, row, keep) ==
    IF keep = <<>> THEN r
    ELSE KeepLoop(KeepExtend(r, row, keep), row, Tail(keep))

\* Lines 557-561: opt.keep is None (here <<>>) when --keep was not given.
KeepFields(row, keep) == IF keep # <<>> THEN KeepLoop(<<>>, row, keep) ELSE row

\* Line 549.
Coerce(row) == [k \in 1..Len(row) |-> numeric(row[k])]

\* Lines 550-553: what a row-transform can return for a row: None (drop the
\* row), the row, or a row with an absent value in front.
FuncResults(row) ==
    {[none |-> TRUE, row |-> <<>>],
     [none |-> FALSE, row |-> row],
     [none |-> FALSE, row |-> <<NoneVal>> \o row]}

\* writer.writerow(row), lines 539 and 562: the writer is handed the row.
WriterWriterow(w, row) == Append(w, row)

Entry(raw, heading, coerced, fr, joined, out, status) ==
    [raw |-> raw, heading |-> heading, coerced |-> coerced, ret |-> fr,
     joined |-> joined, out |-> out, status |-> status]

\* Lines 555-562 for a row that was not dropped.
RowJoined(raw, heading, coerced, fr, j) ==
    IF ~j.ok
    THEN /\ pc' = "crashed"
         /\ log' = Append(log, Entry(raw, heading, coerced, fr, <<>>, <<>>, "TypeError"))
         /\ written' = written
    ELSE /\ pc' = pc
         /\ log' = Append(log, Entry(raw, heading, coerced, fr, j.row,
                                     KeepFields(j.row, opt.keep), "written"))
         /\ written' = WriterWriterow(written, KeepFields(j.row, opt.keep))

\* Lines 550-562.
RowTransformed(raw, heading, coerced, fr) ==
    IF fr.none
    THEN /\ pc' = pc
         /\ log' = Append(log, Entry(raw, heading, coerced, fr, <<>>, <<>>, "dropped"))
         /\ written' = written
    ELSE RowJoined(raw, heading, coerced, fr,
                   JoinFields([ok |-> TRUE, row |-> fr.row], opt.join_fields,
                              opt.joinchar))

NotCalled(row) == [none |-> FALSE, row |-> row]

\* Lines 545-553 for a data row.
DataRow(raw, coerced) ==
    IF opt.func
    THEN \E fr \in FuncResults(coerced) : RowTransformed(raw, FALSE, coerced, fr)
    ELSE RowTransformed(raw, FALSE, coerced, NotCalled(coerced))

\* The loop body with the test of line 545 left out: every row is coerced
\* and transformed.
loop_body_no_heading_test(row) ==
    /\ i' = i + 1
    /\ DataRow(row, Coerce(row))

\* Lines 543-562: one iteration of "for row in reader".
LoopBody(row) ==
    /\ i' = i + 1
    /\ IF i + 1 > opt.heading_lines
       THEN DataRow(row, Coerce(row))
       ELSE RowTransformed(row, TRUE, row, NotCalled(row))

---------------------------------------------------------------------------
(* ShellWriter, lines 97-146. *)

\* shlex.quote(s), which handy.shellify applies to a str: '' for the empty
\* string, s itself when it has no character the shell treats specially,
\* else s in single quotes (an embedded ' closed, double-quoted and
\* reopened).
ShellSafe(c) == c \notin {" ", "'", ";", "=", "$"}
QuoteChar(c) == IF c = "'" THEN <<"'", "\"", "'", "\"", "'">> ELSE <<c>>
RECURSIVE QuoteBody(_)
QuoteBody(s) == IF s = <<>> THEN <<>> ELSE QuoteChar(Head(s)) \o QuoteBody(Tail(s))
ShlexQuote(s) ==
    IF s = <<>> THEN <<"'", "'">>
    ELSE IF \A k \in 1..Len(s) : ShellSafe(s[k]) THEN s
    ELSE <<"'">> \o QuoteBody(s) \o <<"'">>

\* handy.shellify(val): a number as str(val), anything else quoted.
shellify(val) ==
    IF IsNone(val) THEN <<"'", "'">>
    ELSE IF IsStr(val) THEN ShlexQuote(val.s)
    ELSE PyStr(val)

\* sep.join(texts) for a list of texts.
RECURSIVE JoinTexts(_, _)
JoinTexts(sep, texts) ==
    IF texts = <<>> THEN <<>>
    ELSE IF Len(texts) = 1 THEN texts[1]
    ELSE texts[1] \o sep \o JoinTexts(sep, Tail(texts))

\* Lines 107-118: a new ShellWriter.
NewShellWriter(none_as) == [varsNone |-> TRUE, vars |-> <<>>, none_as |-> none_as]

\* Lines 120-121: setHeadings.
SetHeadings(w, headings) ==
    [w EXCEPT !.varsNone = FALSE,
              !.vars = [k \in 1..Len(headings) |-> PyStr(headings[k])]]

\* Lines 128-132: None becomes self.none_as.
NoneAs(row, none_as) ==
    [k \in 1..Len(row) |-> IF IsNone(row[k]) THEN Str(none_as) ELSE row[k]]

\* Lines 135-141: "%s=%s" for each pair of zip(self.vars, r), joined by ";".
ShellLine(names, r) ==
    JoinTexts(<<";">>,
              [k \in 1..Least(Len(names), Len(r)) |->
                  ReplaceChar(names[k], " ", "_") \o <<"=">> \o shellify(r[k])])

\* Line 124, "if not self.vars": None and the empty list are both false.
VarsFalse(w) == w.varsNone \/ w.vars = <<>>

\* Line 124 as "if self.vars is None".
vars_is_none(w) == w.varsNone

\* Line 124.
NotVars(w) == VarsFalse(w)

\* Lines 123-142: writerow.  The two writes make one line of output.
ShellWriterow(row) ==
    /\ shell' = IF NotVars(shell) THEN SetHeadings(shell, row) ELSE shell
    /\ outfile' = IF NotVars(shell) THEN outfile
                  ELSE Append(outfile, ShellLine(shell.vars, NoneAs(row, shell.none_as)))

---------------------------------------------------------------------------
(* TableWriter, lines 149-245. *)

Repeat(text, k) == [j \in 1..(k * Len(text)) |-> text[((j - 1) % Len(text)) + 1]]
Spaces(k) == [j \in 1..k |-> " "]

\* Line 58-66: width(x).
width(x) == Len(PyStr(x))

\* "%f" of a float cell: six digits after the point (the model's floats
\* have at most six).
FloatFmt(c) ==
    (IF c.n < 0 THEN <<"-">> ELSE <<>>)
    \o NatStr(Abs(c.n) \div Pow10(0 - c.e)) \o <<".">>
    \o [k \in 1..((0 - c.e) - Len(NatStr(Abs(c.n) % Pow10(0 - c.e)))) |-> "0"]
    \o NatStr(Abs(c.n) % Pow10(0 - c.e))
    \o [k \in 1..(6 + c.e) |-> "0"]

RJust(s, w) == Spaces(w - Len(s)) \o s
LJust(s, w) == s \o Spaces(w - Len(s))

\* Lines 149-154: tabfmt.
tabfmt(val, w) ==
    IF IsInt(val) THEN RJust(IntStr(val), w)
    ELSE IF IsFloat(val) THEN RJust(FloatFmt(val), w)
    ELSE LJust(PyStr(val), w)

\* Lines 176-189: a new TableWriter.
NewTableWriter(style, markdown, none_as) ==
    [data |-> <<>>, style |-> style, markdown |-> markdown, none_as |-> none_as,
     col_sep |-> IF style = "box" THEN <<" ", "BOX_V", " ">>
                 ELSE IF style = "ascii" THEN <<" ", "|", " ">>
                 ELSE <<" ">>,
     head_sep |-> IF style = "box" THEN <<"BOX_H">>
                  ELSE IF style = "ascii" THEN <<"-">>
                  ELSE <<>>]

\* Lines 191-195: writerow only records the row.
TableAppend(w, row) == [w EXCEPT !.data = Append(w.data, NoneAs(row, w.none_as))]

\* The names bound at module level (lines 1-302): the imports, prog, dc,
\* re_numeric, the functions and classes, and the help-text variables.
\* "opt" is assigned at line 410, inside main(), so it is a local of main.
ModuleNames ==
    {"argparse", "contextlib", "os", "re", "shlex", "sys", "reduce", "wrap",
     "csv", "ProgInfo", "die", "shellify", "DebugChannel", "pprint", "prog",
     "dc", "re_numeric", "numeric", "width", "parse_range", "ShellWriter",
     "tabfmt", "TableWriter", "description", "i", "j", "l", "s", "main"}

\* Lines 218 and 235: writerows reads the global name opt.
OptIsGlobal == "opt" \in ModuleNames

Line(kind, text) == [kind |-> kind, text |-> text]
Flushed(exc, lines) == [exc |-> exc, lines |-> lines]

\* Lines 212-216: one row as Markdown.
MarkdownRow(row) ==
    <<"|", " ">> \o JoinTexts(<<" ", "|", " ">>, [c \in 1..Len(row) |-> PyStr(row[c])])

\* Lines 210-219: the Markdown loop from row r (1-based) on.
RECURSIVE MarkdownLoop(_, _, _)
MarkdownLoop(d, r, out) ==
    IF r > Len(d) THEN Flushed("", out)
    ELSE IF ~OptIsGlobal
    THEN Flushed("NameError", Append(out, Line("row", MarkdownRow(d[r]))))
    ELSE IF opt.heading_lines > 0 /\ r - 1 = opt.heading_lines - 1
    THEN MarkdownLoop(d, r + 1,
                      Append(Append(out, Line("row", MarkdownRow(d[r]))),
                             Line("divider", Repeat(<<"|", "-">>, Len(d[r])))))
    ELSE MarkdownLoop(d, r + 1, Append(out, Line("row", MarkdownRow(d[r]))))

MaxOf(S) == CHOOSE m \in S : \A x \in S : x <= m

\* Lines 222-225: the column widths, one per cell of the first row; a row
\* shorter than the first raises IndexError.
ColumnWidths(d) ==
    IF \E r \in 1..Len(d) : Len(d[r]) < Len(d[1])
    THEN [ok |-> FALSE, wid |-> <<>>]
    ELSE [ok |-> TRUE,
          wid |-> [c \in 1..Len(d[1]) |-> MaxOf({width(d[r][c]) : r \in 1..Len(d)})]]

\* Lines 229-234: one row, each cell formatted to its column's width.
TableRow(w, row, wid) ==
    JoinTexts(w.col_sep, [c \in 1..Len(row) |-> tabfmt(row[c], wid[c])])

\* str.replace(c, text)
RECURSIVE ReplaceWith(_, _, _)
ReplaceWith(s, c, text) ==
    IF s = <<>> THEN <<>>
    ELSE (IF Head(s) = c THEN text ELSE <<Head(s)>>) \o ReplaceWith(Tail(s), c, text)

\* Lines 238-244: the line between the headings and the body.
DividerRow(w, row, wid) ==
    JoinTexts(ReplaceWith(ReplaceWith(ReplaceWith(w.col_sep, " ", w.head_sep),
                                      "BOX_V", <<"BOX_X">>), "|", <<"+">>),
              [c \in 1..Len(row) |-> Repeat(w.head_sep, wid[c])])

\* Lines 227-244: the table loop from row r (1-based) on; a row longer than
\* the first has no width for its last cells (IndexError).
RECURSIVE TableLoop(_, _, _, _)
TableLoop(w, wid, r, out) ==
    IF r > Len(w.data) THEN Flushed("", out)
    ELSE IF Len(w.data[r]) > Len(wid) THEN Flushed("IndexError", out)
    ELSE IF ~OptIsGlobal
    THEN Flushed("NameError", Append(out, Line("row", TableRow(w, w.data[r], wid))))
    ELSE IF opt.heading_lines > 0 /\ r - 1 < opt.heading_lines /\ w.style # "nosep"
    THEN TableLoop(w, wid, r + 1,
                   Append(Append(out, Line("row", TableRow(w, w.data[r], wid))),
                          Line("divider", DividerRow(w, w.data[r], wid))))
    ELSE TableLoop(w, wid, r + 1, Append(out, Line("row", TableRow(w, w.data[r], wid))))

TableRender(w, cw) ==
    IF cw.ok THEN TableLoop(w, cw.wid, 1, <<>>) ELSE Flushed("IndexError", <<>>)

\* Lines 207-244: what writerows() writes for a non-empty buffer.
Render(w) ==
    IF w.markdown THEN MarkdownLoop(w.data, 1, <<>>)
    ELSE TableRender(w, ColumnWidths(w.data))

\* Lines 197-245: writerows() without rows.  An exception leaves the
\* buffer as it is (line 245 is not reached) and ends the program.
FlushResult(f) ==
    /\ outfile' = outfile \o f.lines
    /\ table' = IF f.exc = "" THEN [table EXCEPT !.data = <<>>] ELSE table
    /\ pc' = IF f.exc = "" THEN pc ELSE "crashed"
    /\ ret' = [done |-> TRUE, val |-> f.exc, rows |-> Len(table.data)]

TableWriterows ==
    IF table.data # <<>> THEN FlushResult(Render(table))
    ELSE FlushResult(Flushed("", <<>>))

---------------------------------------------------------------------------
(* The values of the variables a specification does not use. *)

IdleOpt == [heading_lines |-> 0, joinchar |-> <<>>, join_fields |-> <<>>,
            keep |-> <<>>, func |-> FALSE, args |-> <<>>, outfmt |-> "csv",
            style |-> "box"]
IdleRet == [done |-> FALSE]
IdleShell == NewShellWriter(<<>>)
IdleTable == NewTableWriter("box", FALSE, <<>>)

---------------------------------------------------------------------------
(* Spec: main() from the parsed options to the end of the input, with a    *)
(* streaming writer (--outfmt=csv) that is handed one row per call.        *)

S(c) == Str(<<c>>)

\* The rows the reader yields (cells are str, as csv.reader produces them).
InputRows ==
    { <<>>,
      <<S("a")>>,
      <<S("a"), S("5")>>,
      <<Str(<<>>), S("b"), S("0")>>,
      <<S("a"), S("b"), S("c")>> }

\* --headings
HeadingChoices == {0, 1, 2}
\* --join: the join character followed by a FIELDSPEC; <<>> when not given.
JoinChoices ==
    { <<>>, <<"-", "1", "-", "2">>, <<"-", "2", "-", "4">>,
      <<"-", "1", "-", "2", ",", "3", "-", "4">>,
      <<"-", "3", "-", "4", ",", "1", "-", "2">> }
\* --keep: a FIELDSPEC; <<>> when not given.
KeepChoices == { <<>>, <<"2", ",", "1">>, <<"1", "-", "2", ",", "2", "-", "4">> }
\* The literal values on the command line.
ArgsChoices == { <<>>, <<S("h"), S("7")>> }

\* Lines 414-420: joinchar and the reversed list of ranges.
Reverse(s) == [k \in 1..Len(s) |-> s[Len(s) + 1 - k]]
JoinOption(j) == IF j # <<>> THEN Reverse(parse_range(Tail(j)).f) ELSE <<>>
JoinChar(j) == IF j # <<>> THEN <<Head(j)>> ELSE <<>>
\* Lines 423-424.
KeepOption(k) == IF k # <<>> THEN parse_range(k).f ELSE <<>>

Init ==
    /\ pc = "start"
    /\ \E h \in HeadingChoices, j \in JoinChoices, k \in KeepChoices,
          f \in BOOLEAN, a \in ArgsChoices :
          opt = [heading_lines |-> h, joinchar |-> JoinChar(j),
                 join_fields |-> JoinOption(j), keep |-> KeepOption(k),
                 func |-> f, args |-> a, outfmt |-> "csv", style |-> "box"]
    /\ i = 0 /\ log = <<>> /\ written = <<>>
    /\ arg = <<>> /\ ret = IdleRet
    /\ shell = IdleShell /\ table = IdleTable /\ outfile = <<>> /\ calls = <<>>

\* Lines 537-542.
WriteArgs ==
    /\ pc = "start"
    /\ pc' = "loop"
    /\ written' = IF opt.args # <<>> THEN WriterWriterow(written, opt.args) ELSE written
    /\ UNCHANGED <<arg, ret, opt, i, log, shell, table, outfile, calls>>

\* Lines 543-562: the reader yields a row.
ReadRow ==
    /\ pc = "loop"
    /\ i < MaxRows
    /\ \E row \in InputRows : LoopBody(row)
    /\ UNCHANGED <<arg, ret, opt, shell, table, outfile, calls>>

\* Lines 543, 563: the reader is exhausted; a csv writer has nothing to flush.
EndOfInput ==
    /\ pc = "loop"
    /\ pc' = "done"
    /\ UNCHANGED <<arg, ret, opt, i, log, written, shell, table, outfile, calls>>

Next == WriteArgs \/ ReadRow \/ EndOfInput

Spec == Init /\ [][Next]_allvars

---------------------------------------------------------------------------
(* The claims about main(): C1, C2, C6, C7. *)

\* The cells of row whose 0-based index lies in the half-open range r,
\* in row order.
InRange(k0, r) == r.n <= k0 /\ (r.mNone \/ k0 < r.m)
RangeIndices(row, r) == {k \in 1..Len(row) : InRange(k - 1, r)}
CellsIn(row, r) ==
    LET P == RangeIndices(row, r)
    IN  [j \in 1..Cardinality(P) |->
            row[CHOOSE k \in P : Cardinality({h \in P : h < k}) = j - 1]]

\* The concatenation, in spec order, of the cells each range covers.
RECURSIVE ExpectedKeep(_, _)
ExpectedKeep(row, keep) ==
    IF keep = <<>> THEN <<>>
    ELSE CellsIn(row, Head(keep)) \o ExpectedKeep(row, Tail(keep))

\* A cell a join leaves out: the empty string or the absent value.
IsBlank(c) == IsNone(c) \/ (IsStr(c) /\ c.s = <<>>)

\* The texts, delimited by sep.
RECURSIVE Delimited(_, _)
Delimited(sep, texts) ==
    IF texts = <<>> THEN <<>>
    ELSE IF Len(texts) = 1 THEN texts[1]
    ELSE Delimited(sep, SubSeq(texts, 1, Len(texts) - 1)) \o sep \o texts[Len(texts)]

\* One join range applied to row: the slice is replaced by one cell, the
\* sep-delimited string forms of its cells that are not blank; the cells
\* outside the slice stay.
ExpectedJoin(row, r, sep) ==
    LET inside == SelectSeq(CellsIn(row, r), LAMBDA c : ~IsBlank(c))
        texts == [k \in 1..Len(inside) |-> PyStr(inside[k])]
        stop == IF r.mNone THEN Len(row) ELSE Max(r.m, r.n)
    IN  SubSeq(row, 1, Least(r.n, Len(row)))
        \o <<Str(Delimited(sep, texts))>>
        \o SubSeq(row, stop + 1, Len(row))

RECURSIVE ExpectedJoins(_, _, _)
ExpectedJoins(row, ranges, sep) ==
    IF ranges = <<>> THEN row
    ELSE ExpectedJoins(ExpectedJoin(row, Head(ranges), sep), Tail(ranges), sep)

AllStr(row) == \A k \in 1..Len(row) : IsStr(row[k])

\* The literal command-line row, once it has been written.
ArgsRows == IF opt.args # <<>> /\ pc # "start" THEN <<opt.args>> ELSE <<>>

\* The row the writer was handed for the k-th input row (which was written).
WrittenCount(k) == Cardinality({h \in 1..k : log[h].status = "written"})
WrittenFor(k) == written[Len(ArgsRows) + WrittenCount(k)]

\* C1: the rows handed to the writer are the literal command-line row (if
\* literal values were given) followed by the results of the input rows in
\* input order, leaving out exactly the data rows for which the
\* row-transform returned None; nothing is reordered, duplicated or lost:
\* every row read so far was either handed to the writer or dropped by the
\* row-transform.
C1_RowOrder ==
    LET emitted == SelectSeq(log, LAMBDA h : h.status # "dropped")
    IN  /\ written = ArgsRows \o [k \in 1..Len(emitted) |-> emitted[k].out]
        /\ \A k \in 1..Len(log) :
               /\ log[k].status = "dropped" <=>
                      (k > opt.heading_lines /\ opt.func /\ log[k].ret.none)
               /\ log[k].status # "dropped" => log[k].status = "written"
        /\ Len(log) = i

C6_JoinRange ==
    \A k \in 1..Len(log) :
        (~log[k].heading /\ Len(opt.join_fields) = 1 /\ log[k].status # "dropped") =>
            /\ log[k].status = "written"
            /\ log[k].joined = ExpectedJoin(log[k].ret.row, opt.join_fields[1], opt.joinchar)

\* C7: with a keep spec, the row handed to the writer is the concatenation,
\* in spec order, of the cells of the joined row in each half-open range;
\* overlapping ranges repeat cells, cells in no range are left out and a
\* range past the end of the row contributes the cells that exist.  The
\* joined row is the row after all joins.
C7_Keep ==
    \A k \in 1..Len(log) :
        (log[k].status = "written" /\ opt.keep # <<>>) =>
            /\ WrittenFor(k) = ExpectedKeep(log[k].joined, opt.keep)
            /\ AllStr(log[k].ret.row) =>
                   log[k].joined =
                       ExpectedJoins(log[k].ret.row, opt.join_fields, opt.joinchar)

\* A two-cell data row under --keep 1-2,2-4: the second range overlaps the
\* first and runs past the end of the row.
C7_Witness ==
    /\ opt.keep = <<Range(0, 2), Range(1, 4)>>
    /\ Len(log) >= 1
    /\ ~log[1].heading
    /\ log[1].status = "written"
    /\ log[1].joined = <<S("a"), IntCell(5)>>
    /\ WrittenFor(1) = <<S("a"), IntCell(5), IntCell(5)>>

---------------------------------------------------------------------------
(* SpecNumeric: numeric() applied to every string over NumericAlphabet of  *)
(* at most MaxStr characters.                                              *)

NumericAlphabet == {"$", "EUR", ",", ".", "0", "4", "-", "e", "x"}

InitNumeric ==
    /\ pc = "call"
    /\ arg \in SeqsUpTo(NumericAlphabet, MaxStr)
    /\ ret = IdleRet
    /\ opt = IdleOpt /\ i = 0 /\ log = <<>> /\ written = <<>>
    /\ shell = IdleShell /\ table = IdleTable /\ outfile = <<>> /\ calls = <<>>

CallNumeric ==
    /\ pc = "call"
    /\ pc' = "returned"
    /\ ret' = [done |-> TRUE, val |-> numeric(Str(arg))]
    /\ UNCHANGED <<arg, opt, i, log, written, shell, table, outfile, calls>>

NextNumeric == CallNumeric

SpecNumeric == InitNumeric /\ [][NextNumeric]_allvars

---------------------------------------------------------------------------
(* C10: what numeric() returns. *)

IsNumber(c) == IsInt(c) \/ IsFloat(c)

\* The numeric pattern as the specification words it: an optional single
\* leading currency symbol, digits with optional grouping commas, an
\* optional decimal point, optional fractional digits.
PatternText(s) ==
    \E c \in 0..1, p \in 0..Len(s) :
        /\ c <= p
        /\ c = 1 => s[1] \in Currency
        /\ \A k \in (c + 1)..p : s[k] = "," \/ IsDigit(s[k])
        /\ p < Len(s) => s[p + 1] = "." /\ \A k \in (p + 2)..Len(s) : IsDigit(s[k])

\* The text handed to the parsers: a pattern-matching string loses a leading
\* "$" (no other currency symbol) and its commas.
CleanText(s) ==
    IF PatternText(s)
    THEN SelectSeq(IF s # <<>> /\ s[1] = "$" THEN Tail(s) ELSE s,
                   LAMBDA ch : ch # ",")
    ELSE s

SignLen(t) == IF t # <<>> /\ (t[1] = "-" \/ t[1] = "+") THEN 1 ELSE 0
IsExpChar(c) == c = "e" \/ c = "E"
\* The position of the exponent marker, Len(t) + 1 when there is none.
EPos(t) ==
    IF \E k \in 1..Len(t) : IsExpChar(t[k])
    THEN CHOOSE k \in 1..Len(t) : IsExpChar(t[k]) /\ \A j \in 1..(k - 1) : ~IsExpChar(t[j])
    ELSE Len(t) + 1
MantissaText(t) == SubSeq(t, SignLen(t) + 1, EPos(t) - 1)
ExponentText(t) == SubSeq(t, EPos(t) + 1, Len(t))
CountOf(s, c) == Cardinality({k \in 1..Len(s) : s[k] = c})
FractionLen(m) ==
    IF CountOf(m, ".") = 0 THEN 0
    ELSE Len(m) - (CHOOSE k \in 1..Len(m) : m[k] = ".")

\* A text Python's int() or float() accepts (no whitespace, no underscores):
\* an optional sign, at least one digit with at most one point among the
\* digits, and an optional exponent of an optional sign and digits.
NumberText(t) ==
    LET m == MantissaText(t)
        x == ExponentText(t)
        xd == SubSeq(x, SignLen(x) + 1, Len(x))
    IN  /\ \A k \in 1..Len(m) : m[k] = "." \/ IsDigit(m[k])
        /\ CountOf(m, ".") <= 1
        /\ \E k \in 1..Len(m) : IsDigit(m[k])
        /\ EPos(t) <= Len(t) => xd # <<>> /\ \A k \in 1..Len(xd) : IsDigit(xd[k])

\* The value of a NumberText as mantissa and power of ten.
TextMantissa(t) ==
    LET v == DigitsVal(SelectSeq(MantissaText(t), IsDigit))
    IN  IF SignLen(t) = 1 /\ t[1] = "-" THEN 0 - v ELSE v
TextExponent(t) ==
    LET x == ExponentText(t)
        xd == SubSeq(x, SignLen(x) + 1, Len(x))
        v == IF x = <<>> THEN 0 ELSE DigitsVal(xd)
    IN  (IF SignLen(x) = 1 /\ x[1] = "-" THEN 0 - v ELSE v) - FractionLen(MantissaText(t))

Min(a, b) == IF a < b THEN a ELSE b

\* The cell c holds the number mant * 10^ex.
HoldsValue(c, mant, ex) ==
    LET lo == Min(c.e, ex)
    IN  IF mant = 0 THEN c.n = 0
        ELSE c.n * Pow10(c.e - lo) = mant * Pow10(ex - lo)

\* mant * 10^ex has no fractional part (mant has at most MaxStr + 1 digits).
IsWhole(mant, ex) ==
    \/ ex >= 0
    \/ mant = 0
    \/ (0 - ex) <= 8 /\ Abs(mant) % Pow10(0 - ex) = 0

\* C10 as claimed: numeric(s) returns a number only when s matches the
\* numeric pattern and parses once the currency symbol and the commas are
\* stripped, and returns every string that does not match the pattern
\* unchanged.
C10_Original ==
    pc = "returned" =>
        /\ IsNumber(ret.val) => PatternText(arg) /\ NumberText(CleanText(arg))
        /\ ~PatternText(arg) => ret.val = Str(arg)

\* C10 as amended: numeric(s) returns a number exactly when int() or float()
\* accepts the text handed to them, which is s itself when s does not match
\* the pattern (so signed and exponent-form numbers are converted) and s
\* without a leading "$" and without commas when it does; the number holds
\* the value of that text and is an int when the value has no fractional
\* part and a float otherwise; in every other case it returns s unchanged.
C10_NumericResult ==
    pc = "returned" =>
        LET t == CleanText(arg)
        IN  IF NumberText(t)
            THEN /\ IsNumber(ret.val)
                 /\ HoldsValue(ret.val, TextMantissa(t), TextExponent(t))
                 /\ IsInt(ret.val) <=> IsWhole(TextMantissa(t), TextExponent(t))
            ELSE ret.val = Str(arg)

\* A signed number, which the pattern does not match, was converted.
C10_Witness ==
    /\ pc = "returned"
    /\ arg = <<"-", "4">>
    /\ ~PatternText(arg)
    /\ ret.val = IntCell(0 - 4)

---------------------------------------------------------------------------
(* SpecParseRange: parse_range() applied to every string over              *)
(* FieldSpecAlphabet of at most MaxSpec characters.                        *)

FieldSpecAlphabet == {"0", "1", "3", "-", ",", " ", "x"}

InitParseRange ==
    /\ pc = "call"
    /\ arg \in SeqsUpTo(FieldSpecAlphabet, MaxSpec)
    /\ ret = IdleRet
    /\ opt = IdleOpt /\ i = 0 /\ log = <<>> /\ written = <<>>
    /\ shell = IdleShell /\ table = IdleTable /\ outfile = <<>> /\ calls = <<>>

CallParseRange ==
    /\ pc = "call"
    /\ pc' = "returned"
    /\ ret' = [done |-> TRUE, val |-> parse_range(arg)]
    /\ UNCHANGED <<arg, opt, i, log, written, shell, table, outfile, calls>>

NextParseRange == CallParseRange

SpecParseRange == InitParseRange /\ [][NextParseRange]_allvars

---------------------------------------------------------------------------
(* C8: what parse_range() returns. *)

\* The tokens of a spec as the specification words them: the text between
\* the commas, without the whitespace around it.
TokenBounds(s) ==
    {b \in (0..Len(s)) \X (1..(Len(s) + 1)) :
        /\ b[1] < b[2]
        /\ b[1] = 0 \/ s[b[1]] = ","
        /\ b[2] = Len(s) + 1 \/ s[b[2]] = ","
        /\ \A k \in (b[1] + 1)..(b[2] - 1) : s[k] # ","}
TokenCount(s) == CountOf(s, ",") + 1
\* The k-th token (1-based).
TokenText(s, k) ==
    LET b == CHOOSE c \in TokenBounds(s) :
                 Cardinality({d \in TokenBounds(s) : d[1] < c[1]}) = k - 1
        raw == SubSeq(s, b[1] + 1, b[2] - 1)
        inner == {j \in 1..Len(raw) : raw[j] # " "}
    IN  IF inner = {} THEN <<>>
        ELSE SubSeq(raw, CHOOSE j \in inner : \A h \in inner : j <= h,
                         CHOOSE j \in inner : \A h \in inner : j >= h)

\* A valid integer piece: digits, possibly after a "+", possibly between
\* blanks (a "-" never reaches int(): the token is split at it).
IntegerText(x) ==
    LET body == SelectSeq(x, LAMBDA ch : ch # " ")
        ds == IF body # <<>> /\ body[1] = "+" THEN Tail(body) ELSE body
        first == CHOOSE j \in 1..Len(x) : x[j] # " " /\ \A h \in 1..(j - 1) : x[h] = " "
        last == CHOOSE j \in 1..Len(x) : x[j] # " " /\ \A h \in (j + 1)..Len(x) : x[h] = " "
    IN  /\ ds # <<>>
        /\ \A j \in 1..Len(ds) : IsDigit(ds[j])
        /\ \A j \in first..last : x[j] # " "
IntegerValue(x) == DigitsVal(SelectSeq(x, IsDigit))

DashCount(tok) == CountOf(tok, "-")
BeforeDash(tok) == SubSeq(tok, 1, FirstIndex(tok, "-") - 1)
AfterDash(tok) == SubSeq(tok, FirstIndex(tok, "-") + 1, Len(tok))

\* The token is one parse_range accepts.
TokenValid(tok) ==
    \/ DashCount(tok) = 0 /\ IntegerText(tok)
    \/ /\ DashCount(tok) = 1
       /\ BeforeDash(tok) = <<>> \/ IntegerText(BeforeDash(tok))
       /\ AfterDash(tok) = <<>> \/ IntegerText(AfterDash(tok))

\* The pair of a valid token: "N" (N-1,N), "N-M" (N-1,M), "N-" (N-1,None),
\* "-M" (0,M), "-" (0,None).
TokenPair(tok) ==
    IF DashCount(tok) = 0 THEN Range(IntegerValue(tok) - 1, IntegerValue(tok))
    ELSE LET n == IF BeforeDash(tok) = <<>> THEN 0
                  ELSE IntegerValue(BeforeDash(tok)) - 1
         IN  IF AfterDash(tok) = <<>> THEN RangeToEnd(n)
             ELSE Range(n, IntegerValue(AfterDash(tok)))

\* The FieldRange invariant of one pair.
FieldRangeOk(r) == r.n >= 0 /\ (~r.mNone => r.n <= r.m)

\* The token maps to a pair that keeps the FieldRange invariant: its N, when
\* given, is at least 1, and its M, when given, is at least N-1.
TokenInRange(tok) ==
    IF DashCount(tok) = 0 THEN IntegerValue(tok) >= 1
    ELSE /\ BeforeDash(tok) # <<>> => IntegerValue(BeforeDash(tok)) >= 1
         /\ AfterDash(tok) # <<>> =>
                IntegerValue(AfterDash(tok)) >=
                    (IF BeforeDash(tok) = <<>> THEN 0
                     ELSE IntegerValue(BeforeDash(tok)) - 1)

\* The mapping part of C8: one pair per token, in token order, and a parse
\* error exactly when some token is not valid.
ParseRangeMapping ==
    LET r == ret.val
        good == \A k \in 1..TokenCount(arg) : TokenValid(TokenText(arg, k))
    IN  /\ r.ok <=> good
        /\ r.ok => /\ Len(r.f) = TokenCount(arg)
                   /\ \A k \in 1..Len(r.f) : r.f[k] = TokenPair(TokenText(arg, k))
        /\ ~r.ok => r.f = <<>>

\* C8 as claimed: the mapping, and every pair returned satisfies the
\* FieldRange invariant (start >= 0, and start <= end when end is bounded).
C8_Original ==
    pc = "returned" =>
        /\ ParseRangeMapping
        /\ ret.val.ok => \A k \in 1..Len(ret.val.f) : FieldRangeOk(ret.val.f[k])

\* C8 as amended: parse_range maps each token to one pair, in token order
\* and without merging ("N" (N-1,N), "N-M" (N-1,M), "N-" (N-1,None), "-M"
\* (0,M)), and fails with a parse error exactly when some token is empty,
\* has more than one "-" or has a piece that is present but no valid
\* integer.  It checks no range: a returned pair satisfies the FieldRange
\* invariant exactly when its token's N is at least 1 and its M is at
\* least N-1, so "0" yields (-1,0) and "3-1" yields (2,1).
C8_ParseRange ==
    pc = "returned" =>
        /\ ParseRangeMapping
        /\ ret.val.ok =>
               \A k \in 1..Len(ret.val.f) :
                   FieldRangeOk(ret.val.f[k]) <=> TokenInRange(TokenText(arg, k))

\* A spec was parsed into a pair that breaks the FieldRange invariant.
C8_Witness ==
    /\ pc = "returned"
    /\ arg = <<"3", "-", "1">>
    /\ ret.val.ok
    /\ ret.val.f = <<Range(2, 1)>>
    /\ ~FieldRangeOk(ret.val.f[1])

---------------------------------------------------------------------------
(* SpecShell: a ShellWriter and a sequence of writerow calls.              *)

T2(a, b) == Str(<<a, b>>)
T3(a, b, c) == Str(<<a, b, c>>)

ShellRows ==
    { <<>>,
      <<T3("a", " ", "b"), S("c")>>,
      <<S("x"), NoneVal>>,
      <<IntCell(5)>>,
      <<S("v"), T3("w", " ", "z"), S("u")>> }

NoneAsChoices == { <<>>, <<"N", "A">> }

InitShell ==
    /\ pc = "open"
    /\ \E na \in NoneAsChoices : shell = NewShellWriter(na)
    /\ outfile = <<>> /\ calls = <<>>
    /\ arg = <<>> /\ ret = IdleRet
    /\ opt = IdleOpt /\ i = 0 /\ log = <<>> /\ written = <<>>
    /\ table = IdleTable

ShellCall ==
    /\ pc = "open"
    /\ Len(calls) < MaxCalls
    /\ \E row \in ShellRows :
          /\ ShellWriterow(row)
          /\ calls' = Append(calls, row)
    /\ UNCHANGED <<pc, arg, ret, opt, i, log, written, table>>

NextShell == ShellCall

SpecShell == InitShell /\ [][NextShell]_allvars

---------------------------------------------------------------------------
(* C9: what a ShellWriter writes. *)

\* The variable names a header row gives.
HeaderNames(row) == [k \in 1..Len(row) |-> PyStr(row[k])]

\* One line of NAME=VALUE pairs: the k-th name, its blanks replaced by
\* underscores, with the k-th cell, None rendered as none_as; the pairs are
\* delimited by semicolons and there are as many as the shorter of the two.
ExpectedShellLine(header, row, none_as) ==
    LET count == IF Len(header) < Len(row) THEN Len(header) ELSE Len(row)
        name(k) == [j \in 1..Len(PyStr(header[k])) |->
                       IF PyStr(header[k])[j] = " " THEN "_" ELSE PyStr(header[k])[j]]
        value(k) == shellify(IF IsNone(row[k]) THEN Str(none_as) ELSE row[k])
    IN  Delimited(<<";">>, [k \in 1..count |-> name(k) \o <<"=">> \o value(k)])

\* C9 as claimed: the first call, whatever its row, establishes the names
\* and writes nothing; every later call writes exactly one line; the header
\* is never replaced.
C9_Original ==
    calls # <<>> =>
        /\ shell.vars = HeaderNames(calls[1])
        /\ Len(outfile) = Len(calls) - 1
        /\ \A k \in 1..Len(outfile) :
               outfile[k] = ExpectedShellLine(calls[1], calls[k + 1], shell.none_as)

\* The calls so far that carried a row with at least one cell.
NonEmptyCalls == {k \in 1..Len(calls) : calls[k] # <<>>}
FirstNonEmpty == CHOOSE k \in NonEmptyCalls : \A h \in NonEmptyCalls : k <= h

\* C9 as amended: the header is established by the first call that carries
\* a non-empty row; that call and the calls before it (empty rows, each
\* taken as an empty header) write nothing.  Every call after it writes
\* exactly one line of semicolon-separated NAME=VALUE pairs, the i-th name
\* with the i-th cell up to the shorter of the two, and the header is not
\* replaced again.
C9_ShellWriter ==
    IF NonEmptyCalls = {}
    THEN outfile = <<>> /\ shell.vars = <<>>
    ELSE /\ shell.vars = HeaderNames(calls[FirstNonEmpty])
         /\ ~shell.varsNone
         /\ Len(outfile) = Len(calls) - FirstNonEmpty
         /\ \A k \in 1..Len(outfile) :
                outfile[k] = ExpectedShellLine(calls[FirstNonEmpty],
                                               calls[FirstNonEmpty + k], shell.none_as)

\* An empty first row, then a header with a blank in a name, then a row
\* with an absent value.
C9_Witness ==
    /\ Len(calls) = 3
    /\ calls[1] = <<>>
    /\ calls[2] = <<T3("a", " ", "b"), S("c")>>
    /\ calls[3] = <<S("x"), NoneVal>>
    /\ shell.none_as = <<"N", "A">>
    /\ outfile = << <<"a", "_", "b", "=", "x", ";", "c", "=", "N", "A">> >>

---------------------------------------------------------------------------
(* SpecTable: a TableWriter, writerow calls and writerows() without rows.  *)

TableRows ==
    { <<>>,
      <<S("n"), T3("a", "g", "e")>>,
      <<T2("A", "l"), IntCell(30)>>,
      <<T2("B", "o")>>,
      <<Num(25, 0 - 1), NoneVal, S("x")>> }

\* --outfmt: table (box), table-ascii, table-nosep, markdown (lines 521-524).
WriterChoices ==
    { NewTableWriter("box", FALSE, <<>>), NewTableWriter("ascii", FALSE, <<>>),
      NewTableWriter("nosep", FALSE, <<>>), NewTableWriter("box", TRUE, <<>>) }

InitTable ==
    /\ pc = "open"
    /\ table \in WriterChoices
    /\ \E h \in HeadingChoices : opt = [IdleOpt EXCEPT !.heading_lines = h]
    /\ outfile = <<>> /\ calls = <<>>
    /\ arg = <<>> /\ ret = IdleRet
    /\ i = 0 /\ log = <<>> /\ written = <<>>
    /\ shell = IdleShell

\* writerow(row)
TableCall ==
    /\ pc = "open"
    /\ Len(table.data) < MaxBuffered
    /\ \E row \in TableRows :
          /\ table' = TableAppend(table, row)
          /\ calls' = Append(calls, row)
    /\ UNCHANGED <<pc, arg, ret, opt, i, log, written, shell, outfile>>

\* writerows()
TableFlush ==
    /\ pc = "open"
    /\ TableWriterows
    /\ UNCHANGED <<arg, opt, i, log, written, shell, calls>>

NextTable == TableCall \/ TableFlush

SpecTable == InitTable /\ [][NextTable]_allvars

---------------------------------------------------------------------------
(* C3, C4, C5: what writerows() writes for a non-empty buffer. *)

\* writerows() has run on a buffer of at least one row.
FlushedRows == ret.done /\ ret.rows > 0
DividerLines == {k \in 1..Len(outfile) : outfile[k].kind = "divider"}
RowLines == {k \in 1..Len(outfile) : outfile[k].kind = "row"}

\* C3: in table mode the divider line is written exactly once, right after
\* the row at the heading-row count N, when N > 0 and the style is box or
\* ascii, and never when the style is nosep or N = 0.
C3_Divider ==
    (FlushedRows /\ ~table.markdown) =>
        IF opt.heading_lines > 0 /\ table.style # "nosep"
        THEN /\ Cardinality(DividerLines) = 1
             /\ DividerLines = {opt.heading_lines + 1}
        ELSE DividerLines = {}

\* C4: in Markdown mode the "|-" row is written exactly once when the
\* heading-row count N is > 0, right after the row at position N, and not
\* at all when N = 0.
C4_MarkdownDivider ==
    (FlushedRows /\ table.markdown) =>
        IF opt.heading_lines > 0
        THEN /\ Cardinality(DividerLines) = 1
             /\ DividerLines = {opt.heading_lines + 1}
        ELSE DividerLines = {}

\* The display width of column c over the buffered rows that have it.
ColumnWidth(c) ==
    LET ws == {Len(PyStr(table.data[r][c])) : r \in {q \in 1..Len(table.data) : c <= Len(table.data[q])}}
    IN  IF ws = {} THEN 0 ELSE CHOOSE m \in ws : \A x \in ws : x <= m
ColumnCount ==
    LET ls == {Len(table.data[r]) : r \in 1..Len(table.data)}
    IN  CHOOSE m \in ls : \A x \in ls : x <= m
RECURSIVE SumWidths(_)
SumWidths(c) == IF c = 0 THEN 0 ELSE ColumnWidth(c) + SumWidths(c - 1)

\* C5: in table mode writerows() completes for any buffered rows, of any
\* lengths and cell types, and every row line has the same width: the sum
\* of the column widths plus the column separators.
C5_FixedWidth ==
    (ret.done /\ Len(calls) > 0 /\ ~table.markdown) =>
        /\ ret.val = ""
        /\ Cardinality(RowLines) = Len(calls)
        /\ \A k \in RowLines :
               Len(outfile[k].text) =
                   SumWidths(ColumnCount) + (ColumnCount - 1) * Len(table.col_sep)

---------------------------------------------------------------------------
(* C11: a table or Markdown writer buffers on writerow and writes on       *)
(* writerows().                                                            *)

\* The lines a step added to the output.
NewLines == SubSeq(outfile', Len(outfile) + 1, Len(outfile'))
NewRowLines == {k \in 1..Len(NewLines) : NewLines[k].kind = "row"}

\* C11: writerow writes nothing and only adds its row to the buffer;
\* writerows() completes, renders every buffered row exactly once and
\* leaves the buffer empty (so that a repeated writerows() writes nothing).
C11_BufferThenFlush ==
    [][ /\ TableCall =>
            /\ outfile' = outfile
            /\ Len(table'.data) = Len(table.data) + 1
            /\ SubSeq(table'.data, 1, Len(table.data)) = table.data
        /\ TableFlush =>
            /\ ret'.val = ""
            /\ Cardinality(NewRowLines) = Len(table.data)
            /\ table'.data = <<>>
      ]_allvars

---------------------------------------------------------------------------
(* C12: the order in which the join ranges are applied. *)

\* The ranges in descending order of their start index.
RECURSIVE DescendingByStart(_)
DescendingByStart(ranges) ==
    IF ranges = <<>> THEN <<>>
    ELSE LET k == CHOOSE k \in 1..Len(ranges) :
                      \A h \in 1..Len(ranges) : ranges[h].n <= ranges[k].n
         IN  <<ranges[k]>> \o
             DescendingByStart(SubSeq(ranges, 1, k - 1) \o SubSeq(ranges, k + 1, Len(ranges)))

\* C12: whatever order the user wrote the ranges in, they are applied in
\* descending order of their start index, so the row after the joins is the
\* row that results from applying every range to the field numbering of the
\* original row (rows of strings, which every join accepts).
C12_JoinOrder ==
    /\ opt.join_fields = DescendingByStart(opt.join_fields)
    /\ \A k \in 1..Len(log) :
           (log[k].status = "written" /\ AllStr(log[k].ret.row)) =>
               log[k].joined =
                   ExpectedJoins(log[k].ret.row, DescendingByStart(opt.join_fields),
                                 opt.joinchar)

---------------------------------------------------------------------------
(* SpecTableRun: main() with --outfmt table, table-ascii, table-nosep or   *)
(* markdown: the rows go to a TableWriter and are written at the end.      *)

\* Lines 425-435 and 521-524: the writer main() makes for the format.
OutfmtChoices ==
    { [outfmt |-> "table", style |-> "box"], [outfmt |-> "table", style |-> "ascii"],
      [outfmt |-> "table", style |-> "nosep"], [outfmt |-> "markdown", style |-> "box"] }
RunWriter(o) ==
    IF o.outfmt = "markdown" THEN NewTableWriter("box", TRUE, <<>>)
    ELSE NewTableWriter(o.style, FALSE, <<>>)

InitTableRun ==
    /\ pc = "start"
    /\ \E h \in HeadingChoices, f \in BOOLEAN, a \in ArgsChoices, o \in OutfmtChoices :
          /\ opt = [heading_lines |-> h, joinchar |-> <<>>, join_fields |-> <<>>,
                    keep |-> <<>>, func |-> f, args |-> a,
                    outfmt |-> o.outfmt, style |-> o.style]
          /\ table = RunWriter(o)
    /\ i = 0 /\ log = <<>> /\ written = <<>>
    /\ arg = <<>> /\ ret = IdleRet
    /\ shell = IdleShell /\ outfile = <<>> /\ calls = <<>>

\* Lines 537-542: the literal row goes to the writer first.
RunArgs ==
    /\ pc = "start"
    /\ pc' = "loop"
    /\ written' = IF opt.args # <<>> THEN WriterWriterow(written, opt.args) ELSE written
    /\ table' = IF opt.args # <<>> THEN TableAppend(table, opt.args) ELSE table
    /\ UNCHANGED <<arg, ret, opt, i, log, shell, outfile, calls>>

\* Lines 543-562: the reader yields a row; line 562 hands the result to the
\* TableWriter unless the row was dropped.
RunRow ==
    /\ pc = "loop"
    /\ i < MaxRows
    /\ \E row \in InputRows : LoopBody(row)
    /\ table' = IF Len(written') > Len(written)
                THEN TableAppend(table, written'[Len(written')]) ELSE table
    /\ UNCHANGED <<arg, ret, opt, shell, outfile, calls>>

\* Lines 563-566: the reader is exhausted and writer.writerows() is called;
\* main() returns when it returns.
RunFlushed(f) ==
    /\ outfile' = outfile \o f.lines
    /\ table' = IF f.exc = "" THEN [table EXCEPT !.data = <<>>] ELSE table
    /\ pc' = IF f.exc = "" THEN "done" ELSE "crashed"
    /\ ret' = [done |-> TRUE, val |-> f.exc, rows |-> Len(table.data)]

RunFlush ==
    /\ pc = "loop"
    /\ RunFlushed(IF table.data # <<>> THEN Render(table) ELSE Flushed("", <<>>))
    /\ UNCHANGED <<arg, opt, i, log, written, shell, calls>>

NextTableRun == RunArgs \/ RunRow \/ RunFlush

SpecTableRun == InitTableRun /\ [][NextTableRun]_allvars

---------------------------------------------------------------------------
(* C13: the heading rows of the driver and the divider of the table. *)

\* The position in the output of the line of the b-th buffered row
\* (0 when that row was not rendered).
RowLinePosition(b) ==
    IF Cardinality(RowLines) < b THEN 0
    ELSE CHOOSE p \in RowLines : Cardinality({q \in RowLines : q <= p}) = b

HeadingRowCount == Cardinality({k \in 1..Len(log) : log[k].heading})

\* C13: when the run has ended and the input had heading rows (and the
\* format draws a divider), a divider was written, every heading row of the
\* driver is rendered above it and every data row that reached the writer is
\* rendered below it, with or without a literal command-line row in front.
C13_HeadingsAboveDivider ==
    (ret.done /\ HeadingRowCount > 0 /\ (table.markdown \/ table.style # "nosep")) =>
        /\ DividerLines # {}
        /\ \A k \in 1..Len(log) :
               log[k].status = "written" =>
                   LET p == RowLinePosition(Len(ArgsRows) + WrittenCount(k))
                   IN  /\ p > 0
                       /\ log[k].heading => \A d \in DividerLines : p < d
                       /\ ~log[k].heading => \A d \in DividerLines : d < p

===========================================================================
